---- MODULE Spec2Model ----
(***************************************************************************)
(* A model of the self-healing locator agent of self_healing_testing.py:   *)
(* the golden table, the training corpus, the ranker model, their          *)
(* persisted files, and the Agent's operations on a live page.             *)
(*                                                                         *)
(* Python strings are sequences of one-character strings, so that strip(), *)
(* lower(), replace() and the substring test `in` are computed as Python   *)
(* computes them.  Python's None is the value None below, which is no      *)
(* sequence of characters.                                                 *)
(***************************************************************************)
EXTENDS Integers, Sequences, FiniteSets, TLC

VARIABLES
    page,             \* the live document the driver is on: [title, elems]
    goldenFile,       \* global_golden.json: [exists, table]
    trainFile,        \* training_data.pkl: [exists, data, labels]
    modelFile,        \* ml_model.pkl: [exists, model]
    global_data,      \* SelfHealingAgent.global_data
    page_key,         \* SelfHealingAgent.page_key
    training_data,    \* SelfHealingAgent.training_data
    training_labels,  \* SelfHealingAgent.training_labels
    model,            \* SelfHealingAgent.model (NoModel for None)
    result,           \* how the last Agent call ended
    round,            \* what the last healing round did
    session,          \* bookkeeping of the session: corpus length at start, candidates scored
    fn                \* the pure functions applied to drawn inputs (SpecSim, SpecScenario)

vars == <<page, goldenFile, trainFile, modelFile, global_data, page_key,
          training_data, training_labels, model, result, round, session, fn>>

-----------------------------------------------------------------------------
(* Python values *)

None == <<"None">>

Truthy(v) == v # None /\ v # <<>>

\* the ASCII characters str.strip() and str.split() take as white space:
\* blank, \t, \n, \r, \f (0x0c), and the characters 0x0b, 0x1c, 0x1d, 0x1e
\* and 0x1f, which are written as themselves.  The strings of the model are
\* ASCII.
IsSpace(c) == c \in {" ", "\t", "\n", "\r", "\f", "", "", "", "", ""}

RECURSIVE LStrip(_)
LStrip(s) == IF s # <<>> /\ IsSpace(Head(s)) THEN LStrip(Tail(s)) ELSE s

RECURSIVE RStrip(_)
RStrip(s) ==
    IF s # <<>> /\ IsSpace(s[Len(s)]) THEN RStrip(SubSeq(s, 1, Len(s) - 1)) ELSE s

\* str.strip()
Strip(s) == RStrip(LStrip(s))

\* the substring test `a in b`
Contains(a, b) ==
    \E i \in 0..(Len(b) - Len(a)) : SubSeq(b, i + 1, i + Len(a)) = a

UpperAlpha == <<"A","B","C","D","E","F","G","H","I","J","K","L","M",
                "N","O","P","Q","R","S","T","U","V","W","X","Y","Z">>
LowerAlpha == <<"a","b","c","d","e","f","g","h","i","j","k","l","m",
                "n","o","p","q","r","s","t","u","v","w","x","y","z">>

\* the lower-case letter of each upper-case letter
LowerOf ==
    [c \in {UpperAlpha[i] : i \in 1..26} |->
        LowerAlpha[CHOOSE i \in 1..26 : UpperAlpha[i] = c]]

LowerChar(c) == IF c \in DOMAIN LowerOf THEN LowerOf[c] ELSE c

\* str.lower()
Lower(s) == [i \in 1..Len(s) |-> LowerChar(s[i])]

\* str.replace(old, new) for a one-character old and a new of no or one
\* character: every old is dropped, or becomes new
Replace(s, old, new) ==
    IF new = <<>> THEN SelectSeq(s, LAMBDA c : c # old)
    ELSE [i \in 1..Len(s) |-> IF s[i] = old THEN new[1] ELSE s[i]]

\* str.split(): the maximal runs of non-space characters
RECURSIVE SplitFrom(_, _)
SplitFrom(s, cur) ==
    IF s = <<>> THEN (IF cur = <<>> THEN <<>> ELSE <<cur>>)
    ELSE IF IsSpace(Head(s))
         THEN (IF cur = <<>> THEN <<>> ELSE <<cur>>) \o SplitFrom(Tail(s), <<>>)
         ELSE SplitFrom(Tail(s), Append(cur, Head(s)))

Split(s) == SplitFrom(s, <<>>)

\* sep.join(parts)
RECURSIVE Join(_, _)
Join(sep, parts) ==
    IF parts = <<>> THEN <<>>
    ELSE IF Len(parts) = 1 THEN parts[1]
    ELSE parts[1] \o sep \o Join(sep, Tail(parts))

\* dict.get(key), None when the key is missing
Get(d, k) == IF k \in DOMAIN d THEN d[k] ELSE None

-----------------------------------------------------------------------------
(* A live element, as the driver shows it.                                   *)
(*   tag, text             Element.tag_name, Element.text                    *)
(*   id, name, testid, class, placeholder, innerHTML  get_attribute(...)     *)
(*   own                   the element's first text node (XPath text())      *)
(*   parent                <<>> when find_element("..") raises, else <<p>>   *)
(*                         with p the parent's tag, id, class, name, testid  *)

Element(tag, id, name, testid, class, text, own, placeholder, inner, parent) ==
    [tag |-> tag, id |-> id, name |-> name, testid |-> testid, class |-> class,
     text |-> text, own |-> own, placeholder |-> placeholder, innerHTML |-> inner,
     parent |-> parent]

Parent(tag, id, class, name, testid) ==
    [tag |-> tag, id |-> id, class |-> class, name |-> name, testid |-> testid]

Div == <<"d","i","v">>

\* capture_element_attributes: the golden snapshot of an element.  The key
\* innerHTML is set for div elements only; parent is <<>> for Python's None.
capture_element_attributes(element) ==
    LET attributes ==
            [tag |-> element.tag, id |-> element.id, class |-> element.class,
             name |-> element.name, testid |-> element.testid,
             text |-> Strip(element.text), parent |-> element.parent]
    IN  IF Lower(element.tag) = Div
        THEN [k \in DOMAIN attributes \cup {"innerHTML"} |->
                 IF k = "innerHTML" THEN Strip(element.innerHTML) ELSE attributes[k]]
        ELSE attributes

\* the text rule shared by compute_similarity and extract_features
TextMatch(golden, candidate) ==
    LET candidate_text == Strip(candidate.text)
    IN  Truthy(candidate_text) /\ Truthy(Get(golden, "text"))
        /\ Contains(golden.text, candidate_text)

InnerMatch(golden, candidate_innerHTML) ==
    Truthy(Get(golden, "innerHTML"))
    /\ Truthy(candidate_innerHTML) /\ Contains(golden.innerHTML, candidate_innerHTML)

\* golden_parent is truthy and the candidate's parent was found
ParentsComparable(golden, candidate) ==
    candidate.parent # <<>> /\ "parent" \in DOMAIN golden /\ golden.parent # <<>>

ParentTagMatch(golden, candidate) ==
    ParentsComparable(golden, candidate)
    /\ Lower(candidate.parent[1].tag) = Lower(golden.parent[1].tag)

ParentIdMatch(golden, candidate) ==
    ParentsComparable(golden, candidate) /\ candidate.parent[1].id = golden.parent[1].id

ParentClassMatch(golden, candidate) ==
    ParentsComparable(golden, candidate)
    /\ candidate.parent[1].class = golden.parent[1].class

W(cond, weight) == IF cond THEN weight ELSE 0

\* compute_similarity without its tag gate (a mutant)
compute_similarity_no_gate(golden, candidate) ==
    W(candidate.id = Get(golden, "id"), 10)
    + W(candidate.name = Get(golden, "name"), 10)
    + W(candidate.testid = Get(golden, "testid"), 8)
    + W(candidate.class = Get(golden, "class"), 5)
    + W(TextMatch(golden, candidate), 3)
    + W(InnerMatch(golden, Strip(candidate.innerHTML)), 2)
    + W(ParentTagMatch(golden, candidate), 2)
    + W(ParentIdMatch(golden, candidate), 5)
    + W(ParentClassMatch(golden, candidate), 3)

\* compute_similarity with the name match weighing 5 (a mutant)
compute_similarity_name_weight(golden, candidate) ==
    IF Lower(candidate.tag) # Lower(golden.tag) THEN 0
    ELSE W(candidate.id = Get(golden, "id"), 10)
         + W(candidate.name = Get(golden, "name"), 5)
         + W(candidate.testid = Get(golden, "testid"), 8)
         + W(candidate.class = Get(golden, "class"), 5)
         + W(TextMatch(golden, candidate), 3)
         + W(InnerMatch(golden, Strip(candidate.innerHTML)), 2)
         + W(ParentTagMatch(golden, candidate), 2)
         + W(ParentIdMatch(golden, candidate), 5)
         + W(ParentClassMatch(golden, candidate), 3)

\* compute_similarity with the parent's class weighing 2 (a mutant)
compute_similarity_parent_weight(golden, candidate) ==
    IF Lower(candidate.tag) # Lower(golden.tag) THEN 0
    ELSE W(candidate.id = Get(golden, "id"), 10)
         + W(candidate.name = Get(golden, "name"), 10)
         + W(candidate.testid = Get(golden, "testid"), 8)
         + W(candidate.class = Get(golden, "class"), 5)
         + W(TextMatch(golden, candidate), 3)
         + W(InnerMatch(golden, Strip(candidate.innerHTML)), 2)
         + W(ParentTagMatch(golden, candidate), 2)
         + W(ParentIdMatch(golden, candidate), 5)
         + W(ParentClassMatch(golden, candidate), 2)

compute_similarity(golden, candidate) ==
    IF Lower(candidate.tag) # Lower(golden.tag) THEN 0
    ELSE W(candidate.id = Get(golden, "id"), 10)
         + W(candidate.name = Get(golden, "name"), 10)
         + W(candidate.testid = Get(golden, "testid"), 8)
         + W(candidate.class = Get(golden, "class"), 5)
         + W(TextMatch(golden, candidate), 3)
         + W(InnerMatch(golden, Strip(candidate.innerHTML)), 2)
         + W(ParentTagMatch(golden, candidate), 2)
         + W(ParentIdMatch(golden, candidate), 5)
         + W(ParentClassMatch(golden, candidate), 3)

\* extract_features: <<f0, ..., f9>>; f6 = raw_score / 48.0 is kept as the
\* fraction <<raw_score, 48>>.  f5 tests the innerHTML unstripped.
extract_features(golden, candidate) ==
    << W(candidate.id = Get(golden, "id"), 1),
       W(candidate.name = Get(golden, "name"), 1),
       W(candidate.testid = Get(golden, "testid"), 1),
       W(candidate.class = Get(golden, "class"), 1),
       W(TextMatch(golden, candidate), 1),
       W(InnerMatch(golden, candidate.innerHTML), 1),
       <<compute_similarity(golden, candidate), 48>>,
       W(ParentTagMatch(golden, candidate), 1),
       W(ParentIdMatch(golden, candidate), 1),
       W(ParentClassMatch(golden, candidate), 1) >>

-----------------------------------------------------------------------------
(* Locators.  A locator is the XPath text the code builds, kept in its      *)
(* parts so that the driver's query can be computed:                        *)
(*   form "descendant", attr "id":          //tag[@id='val']                *)
(*   form "descendant", attr "testid":      //tag[@data-testid='val']       *)
(*   form "descendant", attr "placeholder": //tag[@placeholder='val']       *)
(*   form "descendant", attr "text":        //tag[contains(text(), 'val')]  *)
(*   form "descendant", attr "none":        //tag                           *)
(*   form "name":                           tag   (a bare name test)        *)
(* generate_selector's class rule builds the CSS text tag.c1.c2, which the  *)
(* code hands to the driver as an XPath: there it is a name test on the     *)
(* children of the document node.                                           *)

Locator(form, tag, attr, val) == [form |-> form, tag |-> tag, attr |-> attr, val |-> val]

Star == <<"*">>

AttrText(attr) ==
    CASE attr = "id" -> <<"i","d">>
      [] attr = "testid" -> <<"d","a","t","a","-","t","e","s","t","i","d">>
      [] attr = "placeholder" -> <<"p","l","a","c","e","h","o","l","d","e","r">>
      [] OTHER -> <<>>

\* the locator's text, as the code's f-strings write it
XPathText(loc) ==
    IF loc.form = "name" THEN loc.tag
    ELSE <<"/","/">> \o loc.tag \o
         (CASE loc.attr = "none" -> <<>>
            [] loc.attr = "text" ->
                 <<"[","c","o","n","t","a","i","n","s","(","t","e","x","t","(",")",","," ","'">>
                 \o loc.val \o <<"'",")","]">>
            [] OTHER -> <<"[","@">> \o AttrText(loc.attr) \o <<"=","'">> \o loc.val \o <<"'","]">>)

\* whether the XPath of loc selects element e of the document
Matches(e, loc) ==
    IF loc.form = "name"
    THEN e.parent = <<>> /\ e.tag = loc.tag
    ELSE /\ (loc.tag = Star \/ e.tag = loc.tag)
         /\ CASE loc.attr = "id" -> e.id = loc.val
              [] loc.attr = "testid" -> e.testid = loc.val
              [] loc.attr = "placeholder" -> e.placeholder = loc.val
              [] loc.attr = "text" -> Contains(loc.val, e.own)
              [] OTHER -> TRUE

\* driver.find_element(By.XPATH, loc): the index of the first element of the
\* document that loc selects, 0 for NoSuchElementException
find_element(pg, loc) ==
    IF \E i \in 1..Len(pg.elems) : Matches(pg.elems[i], loc)
    THEN CHOOSE i \in 1..Len(pg.elems) :
            /\ Matches(pg.elems[i], loc)
            /\ \A j \in 1..(i - 1) : ~Matches(pg.elems[j], loc)
    ELSE 0

\* driver.find_elements(By.TAG_NAME, tag): the indices in document order
find_elements(pg, tag) ==
    SelectSeq([i \in 1..Len(pg.elems) |-> i], LAMBDA i : pg.elems[i].tag = tag)

\* every element of the document taken as a candidate, whatever its tag (a mutant)
get_all_candidates_any_tag(pg, golden) == [i \in 1..Len(pg.elems) |-> i]

\* get_all_candidates
get_all_candidates(pg, golden) == find_elements(pg, golden.tag)

\* generate_selector trying data-testid before id (a mutant)
generate_selector_testid_first(candidate) ==
    IF Truthy(candidate.testid)
    THEN Locator("descendant", Star, "testid", candidate.testid)
    ELSE IF Truthy(candidate.id)
    THEN Locator("descendant", Star, "id", candidate.id)
    ELSE IF Truthy(candidate.placeholder)
    THEN Locator("descendant", candidate.tag, "placeholder", candidate.placeholder)
    ELSE IF Truthy(Strip(candidate.text))
    THEN Locator("descendant", candidate.tag, "text", Strip(candidate.text))
    ELSE IF Truthy(candidate.class)
    THEN Locator("name", candidate.tag \o <<".">> \o Join(<<".">>, Split(candidate.class)),
                 "none", <<>>)
    ELSE Locator("descendant", candidate.tag, "none", <<>>)

generate_selector(candidate) ==
    IF Truthy(candidate.id)
    THEN Locator("descendant", Star, "id", candidate.id)
    ELSE IF Truthy(candidate.testid)
    THEN Locator("descendant", Star, "testid", candidate.testid)
    ELSE IF Truthy(candidate.placeholder)
    THEN Locator("descendant", candidate.tag, "placeholder", candidate.placeholder)
    ELSE IF Truthy(Strip(candidate.text))
    THEN Locator("descendant", candidate.tag, "text", Strip(candidate.text))
    ELSE IF Truthy(candidate.class)
    THEN Locator("name", candidate.tag \o <<".">> \o Join(<<".">>, Split(candidate.class)),
                 "none", <<>>)
    ELSE Locator("descendant", candidate.tag, "none", <<>>)

\* driver.title.replace(" ", "_")
PageKey(title) == Replace(title, " ", <<"_">>)

GoldenInfix == <<"_","g","o","l","d","e","n","_">>

Sanitize(xpath) ==
    Replace(Replace(Replace(Replace(xpath, "/", <<"_">>), "[", <<>>), "]", <<>>), "@", <<>>)

\* generate_golden_identifier(driver, original_xpath, element); element is
\* <<>> for None and <<e>> for an element
generate_golden_identifier(title, original_xpath, element) ==
    LET key == PageKey(title) \o GoldenInfix
        e == element[1]
        id_or_name == IF Truthy(e.id) THEN e.id ELSE e.name
        candidate_text == Strip(e.text)
        fallback == key \o Sanitize(XPathText(original_xpath))
    IN  IF element = <<>> THEN fallback
        ELSE IF Truthy(e.testid) THEN key \o e.testid
        ELSE IF Truthy(id_or_name) THEN key \o id_or_name
        ELSE IF Truthy(e.class)
        THEN key \o e.tag \o <<"_">> \o Replace(Strip(e.class), " ", <<"_">>)
        ELSE IF Truthy(candidate_text) /\ Len(candidate_text) < 20
        THEN key \o e.tag \o <<"_">> \o Replace(candidate_text, " ", <<"_">>)
        ELSE fallback

\* the last index of the largest entry (a mutant)
ArgMaxLast(xs) ==
    CHOOSE i \in 1..Len(xs) :
        /\ \A j \in 1..Len(xs) : xs[j] <= xs[i]
        /\ \A j \in (i + 1)..Len(xs) : xs[j] < xs[i]

\* int(np.argmax(xs)): the first index of the largest entry
ArgMax(xs) ==
    CHOOSE i \in 1..Len(xs) :
        /\ \A j \in 1..Len(xs) : xs[j] <= xs[i]
        /\ \A j \in 1..(i - 1) : xs[j] < xs[i]

-----------------------------------------------------------------------------
(* Attribute values and elements the inputs are drawn from *)

Input == <<"i","n","p","u","t">>
InputUpper == <<"I","N","P","U","T">>
Form == <<"f","o","r","m">>
Email == <<"e","m","a","i","l">>
EmailV2 == <<"e","m","a","i","l","-","v","2">>
Phone == <<"p","h","o","n","e">>
Tid == <<"t","-","1">>
Cls == <<"b","t","n"," ","b","i","g">>
OkPadded == <<" ","O","K">>
OkBang == <<"O","K","!">>
InnerOk == <<"O","K"," ">>

Form1 == Parent(Form, <<"f","1">>, <<"c","o","l">>, None, None)
Form2 == Parent(<<"F","O","R","M">>, <<"f","2">>, <<>>, None, None)

\* the candidates of the pure-function specification
SimElems ==
    { Element(tag, id, name, testid, class, text, Strip(text), None, inner, parent) :
        tag \in {Input, InputUpper, Div}, id \in {<<>>, Email, EmailV2},
        name \in {None, Email}, testid \in {None, Tid}, class \in {<<>>, Cls},
        text \in {<<>>, OkPadded, OkBang}, inner \in {<<>>, InnerOk},
        parent \in {<<>>, <<Form1>>, <<Form2>>} }

\* the elements its goldens are captured from
SimGoldenElems ==
    { e \in SimElems : e.tag \in {Input, Div} /\ e.id = Email
                       /\ e.text \in {<<>>, OkPadded} /\ e.parent \in {<<>>, <<Form1>>} }

\* the score, the feature vector and the heuristic's pick, for a golden and a
\* list of candidates (self_heal_selector's scoring loop and its argmax)
Scored(golden, cands) ==
    LET scores == [i \in 1..Len(cands) |-> compute_similarity(golden, cands[i])]
    IN  [phase |-> "scored", golden |-> golden, cands |-> cands,
         scores |-> scores,
         features |-> [i \in 1..Len(cands) |-> extract_features(golden, cands[i])],
         best |-> ArgMax(scores)]

Drawn(golden, cands) ==
    [phase |-> "input", golden |-> golden, cands |-> cands,
     scores |-> <<>>, features |-> <<>>, best |-> 0]

FnOff == [phase |-> "off", golden |-> <<>>, cands |-> <<>>,
          scores |-> <<>>, features |-> <<>>, best |-> 0]

\* the Agent's state plays no part in the pure-function specifications
AgentIdle ==
    /\ page = [title |-> <<>>, elems |-> <<>>]
    /\ goldenFile = [exists |-> FALSE, table |-> <<>>]
    /\ trainFile = [exists |-> FALSE, data |-> <<>>, labels |-> <<>>]
    /\ modelFile = [exists |-> FALSE, model |-> <<>>]
    /\ global_data = <<>>
    /\ page_key = <<>>
    /\ training_data = <<>>
    /\ training_labels = <<>>
    /\ model = <<>>
    /\ result = <<>>
    /\ round = <<>>
    /\ session = <<>>

agentVars == <<page, goldenFile, trainFile, modelFile, global_data, page_key,
               training_data, training_labels, model, result, round, session>>

\* compute_similarity and extract_features applied to the drawn inputs
SimScore ==
    /\ fn.phase = "input"
    /\ fn' = Scored(fn.golden, fn.cands)
    /\ UNCHANGED agentVars

SimInit ==
    /\ AgentIdle
    /\ \E e0 \in SimGoldenElems, c \in SimElems :
          fn = Drawn(capture_element_attributes(e0), <<c>>)

SimNext == SimScore

SpecSim == SimInit /\ [][SimNext]_vars

-----------------------------------------------------------------------------
(* The end-to-end scenario of the spec: golden {tag: input, id: email},     *)
(* candidates A (id email-v2, name email) and B (unrelated), in either      *)
(* document order.  absent is what the driver returns for an attribute the  *)
(* element does not have.                                                   *)

ScenarioGolden(absent, name) ==
    capture_element_attributes(
        Element(Input, Email, name, absent, absent, <<>>, <<>>, absent, <<>>, <<>>))

ScenarioA(absent) ==
    Element(Input, EmailV2, Email, absent, absent, <<>>, <<>>, absent, <<>>, <<Form1>>)

ScenarioB(absent) ==
    { Element(Input, id, name, testid, class, text, Strip(text), absent, <<>>, parent) :
        id \in {absent, Phone}, name \in {absent, Phone}, testid \in {absent, Tid},
        class \in {absent, Cls}, text \in {<<>>, OkPadded},
        parent \in {<<Form1>>, <<Form2>>} }

ScenarioInit ==
    /\ AgentIdle
    /\ \E absent \in {None, <<>>} :
       \E name \in {absent, Email}, b \in ScenarioB(absent) :
       \E cands \in {<<ScenarioA(absent), b>>, <<b, ScenarioA(absent)>>} :
          fn = Drawn(ScenarioGolden(absent, name), cands)

SpecScenario == ScenarioInit /\ [][SimNext]_vars

-----------------------------------------------------------------------------
(* generate_selector applied to drawn candidates.  The driver gives None    *)
(* for an attribute the element does not have and the empty string for one  *)
(* that is there and empty.                                                 *)

\* a text of white space only: a carriage return and a blank
Blank == <<"\r", " ">>

SelElems ==
    { Element(tag, id, None, testid, class, text, Strip(text), placeholder, <<>>, <<>>) :
        tag \in {Input, Div}, id \in {None, <<>>, Email}, testid \in {None, <<>>, Tid},
        placeholder \in {None, <<>>, Phone}, text \in {<<>>, Blank, OkPadded},
        class \in {None, <<>>, Cls} }

SelDrawn(candidate) == [phase |-> "candidate", cand |-> candidate, selector |-> <<>>]

Synthesized(candidate) ==
    [phase |-> "synthesized", cand |-> candidate,
     selector |-> <<generate_selector(candidate)>>]

SelSynthesize ==
    /\ fn.phase = "candidate"
    /\ fn' = Synthesized(fn.cand)
    /\ UNCHANGED agentVars

SelInit ==
    /\ AgentIdle
    /\ \E c \in SelElems : fn = SelDrawn(c)

SelNext == SelSynthesize

SpecSelector == SelInit /\ [][SelNext]_vars

-----------------------------------------------------------------------------
(* Persistence.  json and pickle write and read back the values the code   *)
(* stores (strings, None, numbers, lists and string-keyed dicts)           *)
(* unchanged, so a file holds the value that was stored.                   *)

MIN_SAMPLES_FOR_MODEL == 5

\* the largest corpus a healing round may build in the model
MaxCorpus == 7

EmptyDict == <<>>

\* Python's None for the model; a fitted model is <<m>>
NoModel == <<>>

NoGoldenFile == [exists |-> FALSE, table |-> EmptyDict]
NoTrainFile == [exists |-> FALSE, data |-> <<>>, labels |-> <<>>]
NoModelFile == [exists |-> FALSE, model |-> NoModel]

load_global_golden_data(file) == IF file.exists THEN file.table ELSE EmptyDict

\* a store that writes the namespaces without their entries (a mutant)
store_global_golden_data_keys_only(data) ==
    [exists |-> TRUE, table |-> [k \in DOMAIN data |-> EmptyDict]]

store_global_golden_data(data) == [exists |-> TRUE, table |-> data]

load_training_data(file) ==
    IF file.exists THEN [data |-> file.data, labels |-> file.labels]
    ELSE [data |-> <<>>, labels |-> <<>>]

save_training_data(data, labels) == [exists |-> TRUE, data |-> data, labels |-> labels]

load_model(file) == IF file.exists THEN file.model ELSE NoModel

save_model(m) == [exists |-> TRUE, model |-> m]

\* XGBClassifier(...).fit(data, labels): the classifier is a black box, known
\* by what it was fitted on
Fit(data, labels) == <<[data |-> data, labels |-> labels]>>

-----------------------------------------------------------------------------
(* The Agent *)

\* SelfHealingAgent.__init__: the table with the namespace of the live page
InitTable(pg, file) ==
    LET loaded == load_global_golden_data(file)
        key == PageKey(pg.title)
    IN  IF key \in DOMAIN loaded THEN loaded ELSE (key :> EmptyDict) @@ loaded

\* SelfHealingAgent.__init__: the golden file, stored when the namespace is new
InitGoldenFile(pg, file) ==
    IF PageKey(pg.title) \in DOMAIN load_global_golden_data(file)
    THEN file
    ELSE store_global_golden_data(InitTable(pg, file))

\* capture_golden_if_missing capturing whether or not an entry exists (a mutant)
CaptureNeededAlways(namespace, golden_id) == TRUE

\* capture_golden_if_missing: `golden_id not in self.global_data[self.page_key]`
CaptureNeeded(namespace, golden_id) == golden_id \notin DOMAIN namespace

\* capture_golden_if_missing: whether a snapshot is taken and stored
Captures(table, key, pg, xpath) ==
    /\ CaptureNeeded(table[key], generate_golden_identifier(pg.title, xpath, <<>>))
    /\ find_element(pg, xpath) # 0

\* capture_golden_if_missing: self.global_data after the call
CapturedTable(table, key, pg, xpath) ==
    IF Captures(table, key, pg, xpath)
    THEN [table EXCEPT ![key] =
            (generate_golden_identifier(pg.title, xpath, <<>>)
                :> capture_element_attributes(pg.elems[find_element(pg, xpath)])) @@ @]
    ELSE table

\* a lookup that falls back to some stored golden of the namespace (a mutant)
GoldenForAny(namespace, golden_id) ==
    IF golden_id \in DOMAIN namespace THEN <<namespace[golden_id]>>
    ELSE IF DOMAIN namespace # {}
    THEN <<namespace[CHOOSE k \in DOMAIN namespace : TRUE]>>
    ELSE <<>>

\* locate_element: self.global_data[self.page_key].get(golden_identifier);
\* <<>> for None, <<golden>> for a snapshot
GoldenFor(namespace, golden_id) ==
    IF golden_id \in DOMAIN namespace THEN <<namespace[golden_id]>> ELSE <<>>

\* the labels with only the best candidate's label kept (a mutant)
RoundLabelsBestOnly(n, best) == <<1>>

\* self_heal_selector: labels = [1 if i == best_index_heuristic else 0 ...]
RoundLabels(n, best) == [i \in 1..n |-> IF i = best THEN 1 ELSE 0]

\* training in every round (a mutant)
ShouldTrainAlways(n) == TRUE

\* training only above the threshold (a mutant)
ShouldTrainAbove(n) == n > MIN_SAMPLES_FOR_MODEL

\* self_heal_selector: len(training_labels) >= MIN_SAMPLES_FOR_MODEL
ShouldTrain(n) == n >= MIN_SAMPLES_FOR_MODEL

\* the synthesized selector taken as verified without the query (a mutant)
VerifiedUnchecked(requery) == TRUE

\* self_heal_selector: driver.find_element(By.XPATH, new_selector) did not
\* raise NoSuchElementException
Verified(requery) == requery # 0

\* self_heal_selector, up to the ranking: everything the round computes
\* before the model (if any) is asked.  goldenW is <<>> for None.
Scoring(pg, goldenW, data, labels, mdl) ==
    LET golden == goldenW[1]
        cands == get_all_candidates(pg, golden)
        n == Len(cands)
        scores == [i \in 1..n |-> compute_similarity(golden, pg.elems[cands[i]])]
        features == [i \in 1..n |-> extract_features(golden, pg.elems[cands[i]])]
        best == ArgMax(scores)
        data2 == data \o features
        labels2 == labels \o RoundLabels(n, best)
        trained == ShouldTrain(Len(labels2))
    IN  [cands |-> cands, scores |-> scores, best |-> best,
         labels |-> RoundLabels(n, best),
         data2 |-> data2, labels2 |-> labels2, trained |-> trained,
         model2 |-> IF trained THEN Fit(data2, labels2) ELSE mdl]

\* whether self_heal_selector gets as far as scoring candidates
ReachesScoring(pg, goldenW) ==
    goldenW # <<>> /\ get_all_candidates(pg, goldenW[1]) # <<>>

\* the indices predict_proba's argmax may give: the classifier is a black
\* box, so any candidate; a single value when the heuristic ranks
Picks(pg, goldenW, data, labels, mdl) ==
    IF ReachesScoring(pg, goldenW)
       /\ Scoring(pg, goldenW, data, labels, mdl).model2 # NoModel
    THEN 1..Len(get_all_candidates(pg, goldenW[1]))
    ELSE {1}

NoRound ==
    [entered |-> FALSE, reached |-> FALSE, cands |-> <<>>, scores |-> <<>>,
     labels |-> <<>>, best |-> 0, trained |-> FALSE, rankedBy |-> "none",
     chosen |-> 0, selector |-> <<>>, requery |-> 0,
     lenBefore |-> 0, hadModel |-> FALSE]

\* self_heal_selector(driver, golden, training_data, training_labels, model):
\* how the call ends.  error is "" when it returns; data and labels are the
\* two lists after the call (they are extended in place, so the caller sees
\* them whether the call returns or raises); model is the local model at
\* the end; saved tells whether both files were written.
self_heal_selector(pg, goldenW, data, labels, mdl, pick) ==
    LET unchanged == [data |-> data, labels |-> labels, model |-> mdl, saved |-> FALSE,
                      selector |-> <<>>]
        entered == [NoRound EXCEPT !.entered = TRUE, !.lenBefore = Len(labels),
                                   !.hadModel = (mdl # NoModel)]
    IN  IF goldenW = <<>>
        THEN unchanged @@ [error |-> "AttributeError", round |-> entered]
        ELSE IF get_all_candidates(pg, goldenW[1]) = <<>>
        THEN unchanged @@ [error |-> "NoCandidatesFound", round |-> entered]
        ELSE
        LET sc == Scoring(pg, goldenW, data, labels, mdl)
            byModel == sc.model2 # NoModel
            chosen == sc.cands[IF byModel THEN pick ELSE sc.best]
            new_selector == generate_selector(pg.elems[chosen])
            requery == find_element(pg, new_selector)
            ok == Verified(requery)
        IN  [error |-> IF ok THEN "" ELSE "HealingVerificationFailed",
             data |-> sc.data2, labels |-> sc.labels2, model |-> sc.model2,
             saved |-> sc.trained,
             selector |-> IF ok THEN <<new_selector>> ELSE <<>>,
             round |-> [entered EXCEPT
                          !.reached = TRUE, !.cands = sc.cands, !.scores = sc.scores,
                          !.labels = sc.labels, !.best = sc.best,
                          !.trained = sc.trained,
                          !.rankedBy = IF byModel THEN "model" ELSE "heuristic",
                          !.chosen = chosen, !.selector = <<new_selector>>,
                          !.requery = requery]]

NoResult ==
    [kind |-> "none", xpath |-> <<>>, id |-> <<>>, error |-> "", elem |-> 0,
     locator |-> <<>>, healed |-> FALSE]

\* get_updated_locator: the original locator once more, then the healing
get_updated_locator(pg, original_xpath, goldenW, data, labels, mdl, pick) ==
    IF find_element(pg, original_xpath) # 0
    THEN [error |-> "", data |-> data, labels |-> labels, model |-> mdl,
          saved |-> FALSE, selector |-> <<original_xpath>>, round |-> NoRound]
    ELSE self_heal_selector(pg, goldenW, data, labels, mdl, pick)

-----------------------------------------------------------------------------
(* The pages the driver visits and the locators the tests use *)

Title1 == <<"P","a","g","e"," ","1">>
Title2 == <<"L","o","g","i","n">>

InputEl(id, name, testid, class, placeholder, parent) ==
    Element(Input, id, name, testid, class, <<>>, <<>>, placeholder, <<>>, <<parent>>)

\* Form1 with a name attribute
Form1Named == Parent(Form, <<"f","1">>, <<"c","o","l">>, <<"f">>, None)

eEmail == InputEl(Email, Email, None, <<>>, None, Form1)
\* the same field after its form was given a name
eEmailAlt == InputEl(Email, Email, None, <<>>, None, Form1Named)
eA == InputEl(EmailV2, Email, None, <<>>, None, Form1)
eB == InputEl(Phone, Phone, None, <<>>, None, Form1)
eBarePhone == InputEl(<<>>, Phone, None, <<>>, None, Form1)
eBareEmail == InputEl(<<>>, Email, None, <<>>, None, Form1)
\* three inputs that share nothing with the email field (another name,
\* class and parent, an empty id, a data-testid that is empty or set): each
\* scores 0 against its snapshot.  They differ in what generate_selector
\* finds first: a class, a placeholder, a data-testid.
Box == Parent(Div, <<"b","o","x">>, <<"r","o","w">>, None, None)
eCls == InputEl(<<>>, Phone, <<>>, Cls, None, Box)
ePlaceholder == InputEl(<<>>, Phone, <<>>, Cls, Phone, Box)
eTid == InputEl(<<>>, Phone, Tid, Cls, None, Box)
dOwn == Element(Div, <<>>, None, None, <<>>, OkPadded, OkPadded, None, InnerOk, <<Form1>>)

Pg(title, elems) == [title |-> title, elems |-> elems]

Pages ==
    { Pg(Title1, <<eEmail, eB>>),
      Pg(Title1, <<eEmailAlt>>),
      Pg(Title1, <<eB, eA>>),
      Pg(Title1, <<eBarePhone, eBareEmail>>),
      Pg(Title1, <<eCls, ePlaceholder, eTid>>),
      Pg(Title2, <<eEmail>>),
      Pg(Title2, <<dOwn>>) }

\* //input[@id='email']
Locators == { Locator("descendant", Input, "id", Email) }

-----------------------------------------------------------------------------
(* The operations *)

\* the state after SelfHealingAgent(driver) on page pg over the three files
Constructed(pg, gfile, tfile, mfile) ==
    /\ page = pg
    /\ goldenFile = InitGoldenFile(pg, gfile)
    /\ trainFile = tfile
    /\ modelFile = mfile
    /\ global_data = InitTable(pg, gfile)
    /\ page_key = PageKey(pg.title)
    /\ training_data = load_training_data(tfile).data
    /\ training_labels = load_training_data(tfile).labels
    /\ model = load_model(mfile)
    /\ result = NoResult
    /\ round = NoRound
    /\ session = [initLen |-> Len(load_training_data(tfile).labels), scored |-> 0]

\* a first session, started with no persisted file
Init ==
    /\ fn = FnOff
    /\ \E pg \in Pages : Constructed(pg, NoGoldenFile, NoTrainFile, NoModelFile)

\* a later process constructs its Agent on the live page: __init__
NewSession ==
    /\ page' = page
    /\ goldenFile' = InitGoldenFile(page, goldenFile)
    /\ global_data' = InitTable(page, goldenFile)
    /\ page_key' = PageKey(page.title)
    /\ training_data' = load_training_data(trainFile).data
    /\ training_labels' = load_training_data(trainFile).labels
    /\ model' = load_model(modelFile)
    /\ result' = NoResult
    /\ round' = NoRound
    /\ session' = [initLen |-> Len(load_training_data(trainFile).labels), scored |-> 0]
    /\ UNCHANGED <<trainFile, modelFile, fn>>

\* the test drives the browser to another page: driver.get(url)
Navigate(pg) ==
    /\ pg # page
    /\ page' = pg
    /\ result' = NoResult
    /\ round' = NoRound
    /\ UNCHANGED <<goldenFile, trainFile, modelFile, global_data, page_key,
                   training_data, training_labels, model, session, fn>>

\* capture_golden_if_missing(original_xpath), called on its own
CaptureGolden(xpath) ==
    /\ global_data' = CapturedTable(global_data, page_key, page, xpath)
    /\ goldenFile' = IF Captures(global_data, page_key, page, xpath)
                     THEN store_global_golden_data(global_data')
                     ELSE goldenFile
    /\ result' = [NoResult EXCEPT
                    !.kind = "id", !.xpath = <<xpath>>,
                    !.id = generate_golden_identifier(page.title, xpath, <<>>)]
    /\ round' = NoRound
    /\ UNCHANGED <<page, trainFile, modelFile, page_key, training_data,
                   training_labels, model, session, fn>>

\* how locate_element ends, from what get_updated_locator gave (h) and the
\* final driver.find_element(By.XPATH, new_locator) (found, 0 when it raises)
Outcome(called, h, found) ==
    IF h.error # ""
    THEN [called EXCEPT !.kind = "exception", !.error = h.error, !.healed = TRUE]
    ELSE IF found = 0
    THEN [called EXCEPT !.kind = "exception", !.healed = TRUE,
                        !.error = "NoSuchElementException"]
    ELSE [called EXCEPT !.kind = "element", !.elem = found,
                        !.locator = h.selector, !.healed = TRUE]

\* the original locator taken as failed whatever the driver found (a mutant)
OriginalNeverResolves(element) == FALSE

\* locate_element: driver.find_element(By.XPATH, original_xpath) returned an
\* element (0 stands for NoSuchElementException)
OriginalResolves(element) == element # 0

\* locate_element(original_xpath).  The singleton sets bind each computed
\* value once.
Locate(xpath) ==
    \E golden_identifier \in {generate_golden_identifier(page.title, xpath, <<>>)},
       table \in {CapturedTable(global_data, page_key, page, xpath)},
       element \in {find_element(page, xpath)} :
    \E goldenW \in {GoldenFor(table[page_key], golden_identifier)},
       called \in {[NoResult EXCEPT !.xpath = <<xpath>>, !.id = golden_identifier]} :
        /\ global_data' = table
        /\ goldenFile' = IF Captures(global_data, page_key, page, xpath)
                         THEN store_global_golden_data(table)
                         ELSE goldenFile
        /\ UNCHANGED <<page, page_key, fn>>
        /\ IF OriginalResolves(element)
           THEN /\ result' = [called EXCEPT !.kind = "element", !.elem = element]
                /\ round' = NoRound
                /\ UNCHANGED <<trainFile, modelFile, training_data, training_labels,
                               model, session>>
           ELSE \E pick \in Picks(page, goldenW, training_data, training_labels, model) :
                \E h \in {get_updated_locator(page, xpath, goldenW, training_data,
                                              training_labels, model, pick)} :
                    /\ Len(h.data) <= MaxCorpus
                    /\ training_data' = h.data
                    /\ training_labels' = h.labels
                    /\ model' = IF h.error = "" THEN h.model ELSE model
                    /\ trainFile' = IF h.saved THEN save_training_data(h.data, h.labels)
                                    ELSE trainFile
                    /\ modelFile' = IF h.saved THEN save_model(h.model) ELSE modelFile
                    /\ round' = h.round
                    /\ session' = [session EXCEPT !.scored = @ + Len(h.round.cands)]
                    /\ result' = Outcome(called, h,
                                         IF h.error = "" THEN find_element(page, h.selector[1])
                                         ELSE 0)

LocateElement(xpath) == Locate(xpath)

\* click_element: locate_element, then element.click() on the driver
ClickElement(xpath) == Locate(xpath)

\* fill_field: locate_element, then element.clear() and send_keys(value)
FillField(xpath) == Locate(xpath)

Next ==
    \/ NewSession
    \/ \E pg \in Pages : Navigate(pg)
    \/ \E xpath \in Locators : CaptureGolden(xpath)
    \/ \E xpath \in Locators : LocateElement(xpath)
    \/ \E xpath \in Locators : ClickElement(xpath)
    \/ \E xpath \in Locators : FillField(xpath)

Spec == Init /\ [][Next]_vars

-----------------------------------------------------------------------------
(* Sessions started over persisted files left by earlier runs.  The code    *)
(* loads each file on its own (load_training_data, load_model), so a model  *)
(* file may be there without the corpus file, or beside a shorter corpus.   *)

GoldenOfEmail == capture_element_attributes(eEmail)

\* a corpus file holding one round of two candidates
ShortTrainFile ==
    save_training_data(<<extract_features(GoldenOfEmail, eB),
                         extract_features(GoldenOfEmail, eA)>>, <<0, 1>>)

\* a model file left by an earlier run
PriorModelFile ==
    save_model(Fit([i \in 1..MIN_SAMPLES_FOR_MODEL |->
                        extract_features(GoldenOfEmail, IF i = 1 THEN eEmail ELSE eB)],
                   [i \in 1..MIN_SAMPLES_FOR_MODEL |-> IF i = 1 THEN 1 ELSE 0]))

InitLoaded ==
    /\ fn = FnOff
    /\ \E pg \in Pages, tfile \in {NoTrainFile, ShortTrainFile} :
          Constructed(pg, NoGoldenFile, tfile, PriorModelFile)

SpecLoaded == InitLoaded /\ [][Next]_vars

-----------------------------------------------------------------------------
(* Claims about the Agent (Spec, SpecLoaded) *)

\* the golden the last call worked with
LastGolden == global_data[page_key][result.id]

\* the candidate of the last round with the highest heuristic score, the
\* first of them in document order
HeuristicBest ==
    round.cands[ArgMax([i \in 1..Len(round.cands) |->
                          compute_similarity(LastGolden, page.elems[round.cands[i]])])]

\* C1: when the original locator fails, an element is returned only if the
\* selector synthesized for the chosen candidate was queried on the live
\* page and resolved; if that query finds nothing the call ends with the
\* healing-failure exception and returns neither locator nor element.
C1_VerificationGate ==
    result.healed =>
        /\ result.kind = "element" =>
              /\ round.reached
              /\ result.locator = round.selector
              /\ round.selector = <<generate_selector(page.elems[round.chosen])>>
              /\ find_element(page, round.selector[1]) # 0
              /\ result.elem = find_element(page, round.selector[1])
        /\ round.reached /\ find_element(page, round.selector[1]) = 0 =>
              /\ result.kind = "exception"
              /\ result.error = "HealingVerificationFailed"
              /\ result.elem = 0
              /\ result.locator = <<>>

C1_Witness ==
    /\ result.healed
    /\ round.reached
    /\ find_element(page, round.selector[1]) = 0
    /\ result.error = "HealingVerificationFailed"

\* C2 as stated: whenever a healing round succeeds, the element that
\* locate_element returns is the candidate the round chose.
C2_ReturnsChosen ==
    result.healed /\ result.kind = "element" => result.elem = round.chosen

\* every entry of the table old is in the table new, unchanged
KeepsEntries(old, new) ==
    \A k \in DOMAIN old : \A id \in DOMAIN old[k] :
        /\ k \in DOMAIN new
        /\ id \in DOMAIN new[k]
        /\ new[k][id] = old[k][id]

\* C3: a snapshot stored under a golden identifier is never changed or
\* removed by any later call, session or page change, in the Agent's table
\* and in the persisted table.
C3_GoldenImmutable ==
    [][ /\ KeepsEntries(global_data, global_data')
        /\ KeepsEntries(goldenFile.table, goldenFile'.table) ]_vars

\* a call found, under an identifier already stored, an element that no
\* longer looks like the stored snapshot
C3_Witness ==
    /\ result.kind \in {"id", "element"}
    /\ result.id \in DOMAIN global_data[page_key]
    /\ find_element(page, result.xpath[1]) # 0
    /\ capture_element_attributes(page.elems[find_element(page, result.xpath[1])])
          # LastGolden

\* C4: throughout a session the corpus has as many labels as vectors and
\* never shrinks; every call adds one vector and one label per candidate
\* of the round it scored, whether the round then succeeds or fails, so the
\* length is the session's initial length plus the sizes of its rounds.
C4_CorpusLength ==
    [][ result'.kind # "none" =>
          /\ Len(training_data') = Len(training_labels')
          /\ Len(training_labels') = session'.initLen + session'.scored
          /\ Len(training_data') = Len(training_data) + Len(round'.cands)
          /\ Len(training_labels') = Len(training_labels) + Len(round'.cands)
          /\ SubSeq(training_data', 1, Len(training_data)) = training_data
          /\ SubSeq(training_labels', 1, Len(training_labels)) = training_labels ]_vars

\* a round that scored and then failed verification, after an earlier round
C4_Witness ==
    /\ result.error = "HealingVerificationFailed"
    /\ round.reached
    /\ session.scored > Len(round.cands)
    /\ Len(training_labels) = session.initLen + session.scored

\* C5: in a session with no model, a round that leaves the corpus at 4 or
\* less picks the heuristic's arg-max; a round that brings it to 5 or more
\* trains a model on the whole corpus, this round's samples included,
\* persists corpus and model, and ranks this round with the model.
C5_ActivationBoundary ==
    round.reached /\ ~round.hadModel =>
        /\ Len(training_labels) < MIN_SAMPLES_FOR_MODEL =>
              /\ ~round.trained
              /\ round.rankedBy = "heuristic"
              /\ round.chosen = HeuristicBest
        /\ Len(training_labels) >= MIN_SAMPLES_FOR_MODEL =>
              /\ round.trained
              /\ round.rankedBy = "model"
              /\ modelFile = save_model(Fit(training_data, training_labels))
              /\ trainFile = save_training_data(training_data, training_labels)

\* the threshold is crossed within the round, and the model overrules the
\* heuristic
C5_Witness ==
    /\ round.reached /\ ~round.hadModel
    /\ round.lenBefore < MIN_SAMPLES_FOR_MODEL
    /\ Len(training_labels) = MIN_SAMPLES_FOR_MODEL
    /\ round.rankedBy = "model"
    /\ round.chosen # HeuristicBest

\* C6 as stated: in every round where the model is unavailable or the
\* corpus, this round's samples included, is below 5, the winner is the
\* heuristic's top-scored candidate, also when a model was loaded from the
\* model file while the corpus is shorter than 5.
C6_Fallback ==
    /\ round.reached
    /\ \/ ~round.hadModel /\ ~round.trained
       \/ Len(training_labels) < MIN_SAMPLES_FOR_MODEL
    => round.chosen = HeuristicBest

\* C10: when no snapshot could be stored at first capture,
\* capture_golden_if_missing still returns the identifier, and a
\* locate_element whose original locator fails ends with an error: no
\* candidate is chosen, no element is returned, and corpus, model and their
\* files are unchanged.
C10_NoGoldenFailsLoudly ==
    [][ /\ result'.kind # "none" /\ ~result'.healed
           /\ find_element(page', result'.xpath[1]) = 0
           /\ result'.id \notin DOMAIN global_data[page_key] =>
              /\ result'.kind = "id"
              /\ result'.id = generate_golden_identifier(page'.title, result'.xpath[1], <<>>)
              /\ result'.id \notin DOMAIN global_data'[page_key']
              /\ UNCHANGED <<global_data, goldenFile>>
        /\ result'.healed /\ result'.id \notin DOMAIN global_data'[page_key'] =>
              /\ result'.kind = "exception"
              /\ result'.error # ""
              /\ result'.elem = 0
              /\ round'.chosen = 0
              /\ ~round'.reached
              /\ UNCHANGED <<training_data, training_labels, model, trainFile,
                             modelFile>> ]_vars

\* such a call, made when the Agent holds a corpus and another golden
C10_Witness ==
    /\ result.healed
    /\ result.id \notin DOMAIN global_data[page_key]
    /\ result.kind = "exception"
    /\ DOMAIN global_data[page_key] # {}
    /\ Len(training_data) > 0

-----------------------------------------------------------------------------
(* Claims about the pure functions (SpecSim, SpecScenario) *)

AllOnes == <<1, 1, 1, 1, 1, 1, <<48, 48>>, 1, 1, 1>>

\* the candidate has the golden's value in every captured attribute
Identical(golden, candidate) == capture_element_attributes(candidate) = golden

\* C7 as stated: for every golden and every candidate identical to it in
\* every captured attribute, also when the golden's text is empty, its
\* innerHTML was not captured or its parent is absent, compute_similarity
\* returns 48 and extract_features returns all ones with f6 = 48/48.
C7_Original ==
    fn.phase = "scored" /\ Identical(fn.golden, fn.cands[1])
        => fn.scores[1] = 48 /\ fn.features[1] = AllOnes

\* the golden has a non-empty text, a captured non-empty innerHTML and a parent
FullGolden(golden) ==
    /\ Truthy(golden.text)
    /\ Truthy(Get(golden, "innerHTML"))
    /\ golden.parent # <<>>

\* C7 as amended: for every golden with a non-empty text, a captured
\* non-empty innerHTML and a parent, and every candidate identical to it in
\* every captured attribute, compute_similarity returns 48 and
\* extract_features returns all ones with f6 = 48/48.
C7_FullGoldenMax ==
    fn.phase = "scored" /\ Identical(fn.golden, fn.cands[1]) /\ FullGolden(fn.golden)
        => fn.scores[1] = 48 /\ fn.features[1] = AllOnes

C7_Witness ==
    /\ fn.phase = "scored"
    /\ Identical(fn.golden, fn.cands[1])
    /\ FullGolden(fn.golden)
    /\ fn.scores[1] = 48

\* the scenario's golden has no name, as the spec gives it
ScenarioAsStated == fn.golden.name \in {None, <<>>}

IndexOfA == CHOOSE i \in 1..2 : fn.cands[i].id = EmailV2

IndexOfB == 3 - IndexOfA

\* C8 as stated: for golden {tag: input, id: email} with no other attribute
\* and candidates A (id email-v2, name email) and B (unrelated),
\* compute_similarity scores A at least 10 above B and the heuristic picks A.
C8_Original ==
    fn.phase = "scored" /\ ScenarioAsStated
        => /\ fn.scores[IndexOfA] >= fn.scores[IndexOfB] + 10
           /\ fn.best = IndexOfA

\* C8 as amended: for golden {tag: input, id: email, name: email} with no
\* other attribute and candidates A (id email-v2, name email, nothing else)
\* and B (id and name other than email), compute_similarity scores A at
\* least 10 above B and the heuristic picks A, in either document order.
C8_NamedGolden ==
    fn.phase = "scored" /\ fn.golden.name = Email
        => /\ fn.scores[IndexOfA] >= fn.scores[IndexOfB] + 10
           /\ fn.best = IndexOfA

C8_Witness ==
    /\ fn.phase = "scored"
    /\ fn.golden.name = Email
    /\ IndexOfA = 2
    /\ fn.scores[2] = fn.scores[1] + 10
    /\ fn.best = 2

\* C9: compute_similarity returns 0 whenever the candidate's tag differs
\* from the golden's, case-insensitively, whatever else matches; and every
\* result lies in 0..48.
C9_TagGate ==
    fn.phase = "scored"
        => \A i \in 1..Len(fn.cands) :
              /\ Lower(fn.cands[i].tag) # Lower(fn.golden.tag) => fn.scores[i] = 0
              /\ fn.scores[i] \in 0..48

C9_Witness ==
    /\ fn.phase = "scored"
    /\ Lower(fn.cands[1].tag) # Lower(fn.golden.tag)
    /\ fn.cands[1].id = fn.golden.id
    /\ fn.cands[1].name = fn.golden.name
    /\ fn.cands[1].parent = fn.golden.parent /\ fn.golden.parent # <<>>
    /\ fn.scores[1] = 0

-----------------------------------------------------------------------------
(* Claims about the Golden Table, the corpus and their files (Spec) *)

\* C11: the persisted Golden Table equals the Agent's table after the
\* namespace creation of __init__ and after every first capture, so that a
\* session constructed at any point between two operations loads every
\* snapshot captured so far.
C11_GoldenWriteThrough ==
    /\ goldenFile.exists
    /\ goldenFile.table = global_data
    /\ load_global_golden_data(goldenFile) = global_data
    /\ KeepsEntries(global_data, InitTable(page, goldenFile))

\* snapshots were captured and a second namespace was created by a later session
C11_Witness ==
    /\ Cardinality(DOMAIN global_data) > 1
    /\ \E k \in DOMAIN global_data : DOMAIN global_data[k] # {}
    /\ result.kind = "element"
    /\ goldenFile.table = global_data

\* C12 as stated: after every healing round that appended samples the
\* persisted corpus equals the Agent's corpus, also when the round left the
\* corpus below 5.
C12_CorpusFlushed ==
    round.reached =>
        /\ trainFile.exists
        /\ trainFile.data = training_data
        /\ trainFile.labels = training_labels

\* the element the last call captured or found with the original locator
LastElement == page.elems[find_element(page, result.xpath[1])]

\* C13 as stated: the identifier the Agent stores and looks up a golden
\* under is the normalized page title followed by the element's data-testid,
\* else its id or name, else tag and class, else tag and short text, and
\* the sanitized locator only when the element has none of these.
C13_KeyedByAttributes ==
    result.kind \in {"id", "element"} /\ find_element(page, result.xpath[1]) # 0
        => result.id = generate_golden_identifier(page.title, result.xpath[1],
                                                  <<LastElement>>)

-----------------------------------------------------------------------------
(* Claims about generate_selector (SpecSelector) *)

SelById(c) == <<"/","/","*","[","@","i","d","=","'">> \o c.id \o <<"'","]">>

SelByTestid(c) ==
    <<"/","/","*","[","@","d","a","t","a","-","t","e","s","t","i","d","=","'">>
    \o c.testid \o <<"'","]">>

SelByPlaceholder(c) ==
    <<"/","/">> \o c.tag
    \o <<"[","@","p","l","a","c","e","h","o","l","d","e","r","=","'">>
    \o c.placeholder \o <<"'","]">>

SelByText(c) ==
    <<"/","/">> \o c.tag
    \o <<"[","c","o","n","t","a","i","n","s","(","t","e","x","t","(",")",","," ","'">>
    \o Strip(c.text) \o <<"'",")","]">>

SelByClass(c) == c.tag \o <<".">> \o Join(<<".">>, Split(c.class))

SelByTag(c) == <<"/","/">> \o c.tag

\* C14: generate_selector returns the text of the first rule that applies,
\* in the order id, data-testid, placeholder (within the tag), visible text
\* (containment within the tag), tag with every class token, bare tag; a
\* rule is used only when every attribute before it is empty or absent.
C14_SelectorPriority ==
    fn.phase = "synthesized" =>
        LET c == fn.cand
            text == XPathText(fn.selector[1])
            noId == c.id \in {None, <<>>}
            noTestid == c.testid \in {None, <<>>}
            noPlaceholder == c.placeholder \in {None, <<>>}
            noText == Strip(c.text) = <<>>
            noClass == c.class \in {None, <<>>}
        IN  /\ ~noId => text = SelById(c)
            /\ noId /\ ~noTestid => text = SelByTestid(c)
            /\ noId /\ noTestid /\ ~noPlaceholder => text = SelByPlaceholder(c)
            /\ noId /\ noTestid /\ noPlaceholder /\ ~noText => text = SelByText(c)
            /\ noId /\ noTestid /\ noPlaceholder /\ noText /\ ~noClass
                  => text = SelByClass(c)
            /\ noId /\ noTestid /\ noPlaceholder /\ noText /\ noClass
                  => text = SelByTag(c)

\* a candidate with an empty id and placeholder, no data-testid and a text of
\* white space gets the class rule
C14_Witness ==
    /\ fn.phase = "synthesized"
    /\ fn.cand.id = <<>> /\ fn.cand.testid = None /\ fn.cand.placeholder = <<>>
    /\ fn.cand.text = Blank /\ fn.cand.class = Cls
    /\ XPathText(fn.selector[1]) = <<"i","n","p","u","t",".","b","t","n",".","b","i","g">>

-----------------------------------------------------------------------------
(* Claims about the Agent over pages, rounds and sessions (Spec) *)

\* C15 as stated: in a session that acts on several pages, the namespace of
\* a page is in the Golden Table once the Agent has acted on it, and every
\* snapshot lies in the namespace of the page it was captured on (whose
\* normalized title its identifier begins with).
C15_NamespacePerPage ==
    /\ result.kind # "none" => PageKey(page.title) \in DOMAIN global_data
    /\ \A k \in DOMAIN global_data : \A id \in DOMAIN global_data[k] :
          SubSeq(id, 1, Len(k) + Len(GoldenInfix)) = k \o GoldenInfix

\* the snapshot table new is old with at most the entry k, id added
AtMostEntryAdded(old, new, k, id) ==
    /\ KeepsEntries(old, new)
    /\ \A k2 \in DOMAIN new : \A id2 \in DOMAIN new[k2] :
          \/ k2 = k /\ id2 = id
          \/ k2 \in DOMAIN old /\ id2 \in DOMAIN old[k2]

\* C16: when the original locator resolves, locate_element returns the
\* element it resolves to without a healing round, and corpus, model and
\* their two files are unchanged; the Golden Table gains at most the entry
\* of this locator.
C16_HappyPathFrame ==
    [][ result'.kind \in {"element", "exception"}
        /\ find_element(page', result'.xpath[1]) # 0 =>
            /\ result'.kind = "element"
            /\ ~result'.healed
            /\ result'.elem = find_element(page', result'.xpath[1])
            /\ round' = NoRound
            /\ UNCHANGED <<training_data, training_labels, model, trainFile, modelFile>>
            /\ AtMostEntryAdded(global_data, global_data', page_key', result'.id)
            /\ AtMostEntryAdded(goldenFile.table, goldenFile'.table, page_key', result'.id)
      ]_vars

\* the happy path taken by an Agent that holds a corpus and a model
C16_Witness ==
    /\ result.kind = "element" /\ ~result.healed
    /\ Len(training_data) >= MIN_SAMPLES_FOR_MODEL
    /\ model # NoModel
    /\ modelFile.exists

\* C17: when the original locator fails, a golden exists and no element of
\* the live page has the golden's tag, the call ends with the no-candidates
\* error before any scoring: no element is returned, and corpus, model and
\* their files are unchanged.
C17_NoCandidates ==
    [][ /\ result'.healed
        /\ result'.id \in DOMAIN global_data'[page_key']
        /\ \A i \in 1..Len(page'.elems) :
              page'.elems[i].tag # global_data'[page_key'][result'.id].tag
        =>  /\ result'.kind = "exception"
            /\ result'.error = "NoCandidatesFound"
            /\ result'.elem = 0
            /\ result'.locator = <<>>
            /\ ~round'.reached
            /\ round'.scores = <<>>
            /\ UNCHANGED <<training_data, training_labels, model, trainFile, modelFile>>
      ]_vars

\* such a call by an Agent that holds a corpus
C17_Witness ==
    /\ result.healed
    /\ result.id \in DOMAIN global_data[page_key]
    /\ result.error = "NoCandidatesFound"
    /\ Len(training_data) > 0

\* the heuristic score of the i-th candidate of the last round
RoundScore(i) == compute_similarity(LastGolden, page.elems[round.cands[i]])

\* C18: in every round that reaches scoring exactly one candidate is
\* labelled 1, the one with the highest heuristic score, the first of them
\* in enumeration order when several tie (also when every score is 0);
\* every other candidate of the round is labelled 0.
C18_OneLabel ==
    round.reached =>
        LET n == Len(round.cands)
        IN  /\ Len(round.labels) = n
            /\ Cardinality({i \in 1..n : round.labels[i] = 1}) = 1
            /\ \A i \in 1..n :
                  round.labels[i] =
                      IF /\ \A j \in 1..n : RoundScore(j) <= RoundScore(i)
                         /\ \A j \in 1..(i - 1) : RoundScore(j) < RoundScore(i)
                      THEN 1 ELSE 0
            /\ SubSeq(training_labels, Len(training_labels) - n + 1,
                      Len(training_labels)) = round.labels

\* a round of three candidates that all score 0
C18_Witness ==
    /\ round.reached
    /\ Len(round.cands) = 3
    /\ \A i \in 1..3 : RoundScore(i) = 0
    /\ round.labels = <<1, 0, 0>>

\* C19: from empty files on, over all sessions and calls, the Agent has a
\* model only beside a corpus of at least 5 samples, the model file exists
\* only beside a corpus file of at least 5 samples, and the persisted model
\* was fitted on exactly the persisted corpus.
C19_ModelNeedsCorpus ==
    /\ model # NoModel => Len(training_labels) >= MIN_SAMPLES_FOR_MODEL
    /\ modelFile.exists =>
          /\ trainFile.exists
          /\ Len(trainFile.labels) >= MIN_SAMPLES_FOR_MODEL
          /\ Len(trainFile.data) = Len(trainFile.labels)
          /\ modelFile.model = <<[data |-> trainFile.data, labels |-> trainFile.labels]>>

\* a model retrained by a later round, in the Agent and in the file
C19_Witness ==
    /\ round.reached /\ round.hadModel /\ round.trained
    /\ model # NoModel
    /\ modelFile.exists
    /\ Len(trainFile.labels) > MIN_SAMPLES_FOR_MODEL

\* C20 as stated: after every locate_element call, returned or raised, the
\* Agent's model is the persisted model and the Agent's corpus is the corpus
\* that model was fitted on.
C20_ThreadedBack ==
    result.kind \in {"element", "exception"} /\ modelFile.exists =>
        /\ model = modelFile.model
        /\ model = <<[data |-> training_data, labels |-> training_labels]>>

====
